---------------------------- MODULE Spec2Model ----------------------------
(***************************************************************************)
(* DataSourceCollection (Source/DynamicScene/DataSourceCollection.js): an  *)
(* ordered collection of data sources with change notification.            *)
(*                                                                         *)
(* Indices are 0-based as in the JavaScript source; the element at index i *)
(* of an array arr is At(arr, i).  An optional or possibly-undefined value *)
(* is a sequence of length at most one: << >> is undefined, <<v>> is v.    *)
(* Every public method is one action; it records the call, what the call   *)
(* returned or threw, and the notifications and destroy() invocations it   *)
(* made, in order, each with a snapshot of the collection at that moment.  *)
(* The caller then drops that record (Reset) before the next call.         *)
(* before is the array as it was when the recorded call was made.          *)
(***************************************************************************)
EXTENDS Integers, Sequences, FiniteSets

\* The data source objects that callers hold.
Handles == {"A", "B", "C"}

\* The value of an argument that was not passed.
undefined == "undefined"

\* The largest array length the model explores.
MaxLen == 3

VARIABLES
    _dataSources,       \* this._dataSources
    show,               \* dataSource.show, set by the callers
    _show,              \* dataSource._show, the shadow of show
    _dataSourceIndex,   \* dataSource._dataSourceIndex
    isDestroyed,        \* what the collection's isDestroyed() answers
    before,             \* this._dataSources when the last call was made
    call,               \* the last call made on the collection
    result,             \* what the last call returned or threw
    events              \* what the last call raised, in order

vars == <<_dataSources, show, _show, _dataSourceIndex, isDestroyed, before, call, result, events>>

----------------------------------------------------------------------------
(* Array helpers *)

At(arr, i) == arr[i + 1]

\* Mutant of indexOf: Array.prototype.lastIndexOf.
indexOf_last(arr, x) ==
    IF \E k \in 1..Len(arr) : arr[k] = x
    THEN (CHOOSE k \in 1..Len(arr) :
              arr[k] = x /\ \A m \in (k + 1)..Len(arr) : arr[m] # x) - 1
    ELSE -1

\* Array.prototype.indexOf: the first index holding x, or -1.
indexOf(arr, x) ==
    IF \E k \in 1..Len(arr) : arr[k] = x
    THEN (CHOOSE k \in 1..Len(arr) : arr[k] = x /\ \A m \in 1..(k - 1) : arr[m] # x) - 1
    ELSE -1

\* arr.splice(i, 1)
spliceOut(arr, i) ==
    [k \in 1..(Len(arr) - 1) |-> IF k <= i THEN arr[k] ELSE arr[k + 1]]

\* Mutant of spliceIn: the data source is pushed, whatever the index.
spliceIn_push(arr, i, x) == Append(arr, x)

\* arr.splice(i, 0, x)
spliceIn(arr, i, x) ==
    [k \in 1..(Len(arr) + 1) |->
        IF k <= i THEN arr[k] ELSE IF k = i + 1 THEN x ELSE arr[k - 1]]

\* CesiumMath.clamp(value, min, max)
clamp(value, min, max) ==
    IF value < min THEN min ELSE IF value > max THEN max ELSE value

\* defaultValue(a, b): b when a is undefined
defaultValue(a, b) == IF a = << >> THEN b ELSE a[1]

----------------------------------------------------------------------------
(* What a call leaves behind *)

Returned(v) == [threw |-> FALSE, value |-> v, message |-> ""]
Threw(msg)  == [threw |-> TRUE, value |-> << >>, message |-> msg]

Call(op, ds, index, destroy) ==
    [op |-> op, dataSource |-> ds, index |-> index, destroy |-> destroy]

\* No call has been made since the caller last looked.
Idle == Call("idle", undefined, << >>, << >>)

\* One entry of the log of a call: an Event.raiseEvent on one of the four
\* events, or an invocation of dataSource.destroy().  index, oldIndex and
\* shown are the arguments the event passes after the data source (-1 and
\* FALSE where the event has no such argument); the rest is the state of the
\* collection and of the data sources when the entry was made, dead being
\* the data sources whose destroy() the call has invoked before it.
Entry(type, ds, index, oldIndex, shown, arr, idx, sh, dead) ==
    [type |-> type, dataSource |-> ds, index |-> index, oldIndex |-> oldIndex,
     shown |-> shown, dataSources |-> arr, positions |-> idx, lastShow |-> sh,
     destroyed |-> dead]

----------------------------------------------------------------------------
(* DataSourceCollection.prototype._update *)

\* Mutant of updateWalk: a data source whose _show is still undefined is put
\* on the dataSourcesShownOrHidden list too.
RECURSIVE updateWalk_firstObservation(_, _, _, _, _)
updateWalk_firstObservation(arr, i, idx, sh, changed) ==
    IF i >= Len(arr)
    THEN [positions |-> idx, lastShow |-> sh, changed |-> changed]
    ELSE LET dataSource == At(arr, i)
             differs == sh[dataSource] # <<show[dataSource]>>
         IN  updateWalk_firstObservation(arr, i + 1,
                 [idx EXCEPT ![dataSource] = <<i>>],
                 IF differs THEN [sh EXCEPT ![dataSource] = <<show[dataSource]>>] ELSE sh,
                 IF differs THEN Append(changed, dataSource) ELSE changed)

\* Mutant of updateWalk: _show is set on the first observation of a data
\* source only.
RECURSIVE updateWalk_staleShow(_, _, _, _, _)
updateWalk_staleShow(arr, i, idx, sh, changed) ==
    IF i >= Len(arr)
    THEN [positions |-> idx, lastShow |-> sh, changed |-> changed]
    ELSE LET dataSource == At(arr, i)
             differs == sh[dataSource] # <<show[dataSource]>>
         IN  updateWalk_staleShow(arr, i + 1,
                 [idx EXCEPT ![dataSource] = <<i>>],
                 IF sh[dataSource] = << >>
                 THEN [sh EXCEPT ![dataSource] = <<show[dataSource]>>] ELSE sh,
                 IF differs /\ sh[dataSource] # << >>
                 THEN Append(changed, dataSource) ELSE changed)

\* The first loop: walks arr from index i, with idx and sh the values of
\* _dataSourceIndex and _show so far and changed the dataSourcesShownOrHidden
\* list so far.
RECURSIVE updateWalk(_, _, _, _, _)
updateWalk(arr, i, idx, sh, changed) ==
    IF i >= Len(arr)
    THEN [positions |-> idx, lastShow |-> sh, changed |-> changed]
    ELSE LET dataSource == At(arr, i)
             differs == sh[dataSource] # <<show[dataSource]>>
         IN  updateWalk(arr, i + 1,
                 [idx EXCEPT ![dataSource] = <<i>>],
                 IF differs THEN [sh EXCEPT ![dataSource] = <<show[dataSource]>>] ELSE sh,
                 IF differs /\ sh[dataSource] # << >>
                 THEN Append(changed, dataSource) ELSE changed)

\* Mutant of _update: the second loop raises every notification twice.
_update_raisesTwice(arr) ==
    LET w == updateWalk(arr, 0, _dataSourceIndex, _show, << >>)
        raised == [k \in 1..Len(w.changed) |->
                      Entry("dataSourceShownOrHidden", w.changed[k],
                            w.positions[w.changed[k]][1], -1, show[w.changed[k]],
                            arr, w.positions, w.lastShow, {})]
    IN  [positions |-> w.positions,
         lastShow  |-> w.lastShow,
         raised    |-> raised \o raised]

\* _update on the array arr: the new shadow fields and the
\* dataSourceShownOrHidden events raised by the second loop.
_update(arr) ==
    LET w == updateWalk(arr, 0, _dataSourceIndex, _show, << >>)
    IN  [positions |-> w.positions,
         lastShow  |-> w.lastShow,
         raised    |-> [k \in 1..Len(w.changed) |->
                           Entry("dataSourceShownOrHidden", w.changed[k],
                                 w.positions[w.changed[k]][1], -1, show[w.changed[k]],
                                 arr, w.positions, w.lastShow, {})]]

----------------------------------------------------------------------------
Init ==
    /\ _dataSources = << >>
    /\ show \in [Handles -> BOOLEAN]
    /\ _show = [h \in Handles |-> << >>]
    /\ _dataSourceIndex = [h \in Handles |-> << >>]
    /\ isDestroyed = FALSE
    /\ before = << >>
    /\ call = Idle
    /\ result = Returned(<< >>)
    /\ events = << >>

\* A call that throws: nothing is raised and nothing changes.
Fail(msg) ==
    /\ result' = Threw(msg)
    /\ events' = << >>
    /\ UNCHANGED <<_dataSources, show, _show, _dataSourceIndex>>

\* A call that returns v without touching the collection.
Quiet(v) ==
    /\ result' = Returned(v)
    /\ events' = << >>
    /\ UNCHANGED <<_dataSources, show, _show, _dataSourceIndex>>

\* A caller assigns dataSource.show.
SetShow(h) ==
    /\ show' = [show EXCEPT ![h] = ~show[h]]
    /\ UNCHANGED <<_dataSources, _show, _dataSourceIndex, call, result, events>>

\* The caller has looked at what the last call returned and raised.
Reset ==
    /\ call # Idle
    /\ call' = Idle
    /\ before' = _dataSources
    /\ result' = Returned(<< >>)
    /\ events' = << >>
    /\ UNCHANGED <<_dataSources, show, _show, _dataSourceIndex>>

\* Mutant of add: an index outside [0, length] is clamped, not rejected.
add_clamps(dataSource, index) ==
    /\ call' = Call("add", dataSource, index, << >>)
    /\ IF dataSource = undefined
       THEN Fail("dataSource is required.")
       ELSE LET ix  == IF index = << >> THEN Len(_dataSources)
                       ELSE clamp(index[1], 0, Len(_dataSources))
                arr == spliceIn(_dataSources, ix, dataSource)
                u   == _update(arr)
            IN  /\ _dataSources' = arr
                /\ _dataSourceIndex' = u.positions
                /\ _show' = u.lastShow
                /\ events' = Append(u.raised,
                       Entry("dataSourceAdded", dataSource, ix, -1, FALSE,
                             arr, u.positions, u.lastShow, {}))
                /\ result' = Returned(<< >>)
                /\ UNCHANGED show

\* Mutant of add: the index of the insertion is returned.
add_returnsIndex(dataSource, index) ==
    /\ call' = Call("add", dataSource, index, << >>)
    /\ IF dataSource = undefined
       THEN Fail("dataSource is required.")
       ELSE IF index # << >> /\ index[1] < 0
       THEN Fail("index must be greater than or equal to zero.")
       ELSE IF index # << >> /\ index[1] > Len(_dataSources)
       THEN Fail("index must be less than or equal to the number of data sources.")
       ELSE LET ix  == IF index = << >> THEN Len(_dataSources) ELSE index[1]
                arr == IF index = << >>
                       THEN Append(_dataSources, dataSource)
                       ELSE spliceIn(_dataSources, ix, dataSource)
                u   == _update(arr)
            IN  /\ _dataSources' = arr
                /\ _dataSourceIndex' = u.positions
                /\ _show' = u.lastShow
                /\ events' = Append(u.raised,
                       Entry("dataSourceAdded", dataSource, ix, -1, FALSE,
                             arr, u.positions, u.lastShow, {}))
                /\ result' = Returned(<<ix>>)
                /\ UNCHANGED show

\* DataSourceCollection.prototype.add
add(dataSource, index) ==
    /\ call' = Call("add", dataSource, index, << >>)
    /\ IF dataSource = undefined
       THEN Fail("dataSource is required.")
       ELSE IF index # << >> /\ index[1] < 0
       THEN Fail("index must be greater than or equal to zero.")
       ELSE IF index # << >> /\ index[1] > Len(_dataSources)
       THEN Fail("index must be less than or equal to the number of data sources.")
       ELSE LET ix  == IF index = << >> THEN Len(_dataSources) ELSE index[1]
                arr == IF index = << >>
                       THEN Append(_dataSources, dataSource)
                       ELSE spliceIn(_dataSources, ix, dataSource)
                u   == _update(arr)
            IN  /\ _dataSources' = arr
                /\ _dataSourceIndex' = u.positions
                /\ _show' = u.lastShow
                /\ events' = Append(u.raised,
                       Entry("dataSourceAdded", dataSource, ix, -1, FALSE,
                             arr, u.positions, u.lastShow, {}))
                /\ result' = Returned(<< >>)
                /\ UNCHANGED show

\* Mutant of remove: _update runs before the membership test.
remove_updatesFirst(dataSource, destroy) ==
    LET doDestroy == defaultValue(destroy, TRUE)
        index     == indexOf(_dataSources, dataSource)
        arr       == IF index # -1 THEN spliceOut(_dataSources, index) ELSE _dataSources
        u         == _update(arr)
        removed   == Entry("dataSourceRemoved", dataSource, index, -1, FALSE,
                           arr, u.positions, u.lastShow, {})
        destroying == Entry("destroy", dataSource, -1, -1, FALSE,
                            arr, u.positions, u.lastShow, {})
    IN  /\ call' = Call("remove", dataSource, << >>, destroy)
        /\ _dataSources' = arr
        /\ _dataSourceIndex' = u.positions
        /\ _show' = u.lastShow
        /\ events' = IF index # -1
                     THEN u.raised \o <<removed>> \o
                          (IF doDestroy THEN <<destroying>> ELSE << >>)
                     ELSE u.raised
        /\ result' = Returned(<<index # -1>>)
        /\ UNCHANGED show

\* Mutant of remove: the data source is destroyed whatever destroy is.
remove_alwaysDestroys(dataSource, destroy) ==
    LET index == indexOf(_dataSources, dataSource)
    IN  /\ call' = Call("remove", dataSource, << >>, destroy)
        /\ IF index # -1
           THEN LET arr == spliceOut(_dataSources, index)
                    u   == _update(arr)
                    removed == Entry("dataSourceRemoved", dataSource, index, -1, FALSE,
                                     arr, u.positions, u.lastShow, {})
                    destroying == Entry("destroy", dataSource, -1, -1, FALSE,
                                        arr, u.positions, u.lastShow, {})
                IN  /\ _dataSources' = arr
                    /\ _dataSourceIndex' = u.positions
                    /\ _show' = u.lastShow
                    /\ events' = u.raised \o <<removed, destroying>>
                    /\ result' = Returned(<<TRUE>>)
                    /\ UNCHANGED show
           ELSE Quiet(<<FALSE>>)

\* DataSourceCollection.prototype.remove
remove(dataSource, destroy) ==
    LET doDestroy == defaultValue(destroy, TRUE)
        index     == indexOf(_dataSources, dataSource)
    IN  /\ call' = Call("remove", dataSource, << >>, destroy)
        /\ IF index # -1
           THEN LET arr == spliceOut(_dataSources, index)
                    u   == _update(arr)
                    removed == Entry("dataSourceRemoved", dataSource, index, -1, FALSE,
                                     arr, u.positions, u.lastShow, {})
                    destroying == Entry("destroy", dataSource, -1, -1, FALSE,
                                        arr, u.positions, u.lastShow, {})
                IN  /\ _dataSources' = arr
                    /\ _dataSourceIndex' = u.positions
                    /\ _show' = u.lastShow
                    /\ events' = u.raised \o <<removed>> \o
                                 (IF doDestroy THEN <<destroying>> ELSE << >>)
                    /\ result' = Returned(<<TRUE>>)
                    /\ UNCHANGED show
           ELSE Quiet(<<FALSE>>)

\* Mutant of removeAllLoop: destroy() comes before the notification.
RECURSIVE removeAllLoop_destroyFirst(_, _, _, _)
removeAllLoop_destroyFirst(arr, i, doDestroy, dead) ==
    IF i >= Len(arr)
    THEN << >>
    ELSE LET dataSource == At(arr, i)
             now == IF doDestroy THEN dead \cup {dataSource} ELSE dead
             destroying == Entry("destroy", dataSource, -1, -1, FALSE,
                                 arr, _dataSourceIndex, _show, dead)
             removed == Entry("dataSourceRemoved", dataSource, i, -1, FALSE,
                              arr, _dataSourceIndex, _show, now)
         IN  (IF doDestroy THEN <<destroying>> ELSE << >>) \o <<removed>>
                 \o removeAllLoop_destroyFirst(arr, i + 1, doDestroy, now)

\* What the loop of removeAll raises from index i on, dead being the data
\* sources it has destroyed so far.
RECURSIVE removeAllLoop(_, _, _, _)
removeAllLoop(arr, i, doDestroy, dead) ==
    IF i >= Len(arr)
    THEN << >>
    ELSE LET dataSource == At(arr, i)
             removed == Entry("dataSourceRemoved", dataSource, i, -1, FALSE,
                              arr, _dataSourceIndex, _show, dead)
             destroying == Entry("destroy", dataSource, -1, -1, FALSE,
                                 arr, _dataSourceIndex, _show, dead)
             rest == removeAllLoop(arr, i + 1, doDestroy,
                         IF doDestroy THEN dead \cup {dataSource} ELSE dead)
         IN  <<removed>> \o (IF doDestroy THEN <<destroying>> ELSE << >>) \o rest

\* Mutant of removeAll: the array is emptied without any notification.
removeAll_silent(destroy) ==
    /\ call' = Call("removeAll", undefined, << >>, destroy)
    /\ events' = << >>
    /\ _dataSources' = << >>
    /\ result' = Returned(<< >>)
    /\ UNCHANGED <<show, _show, _dataSourceIndex>>

\* DataSourceCollection.prototype.removeAll
removeAll(destroy) ==
    LET doDestroy == defaultValue(destroy, TRUE)
    IN  /\ call' = Call("removeAll", undefined, << >>, destroy)
        /\ events' = removeAllLoop(_dataSources, 0, doDestroy, {})
        /\ _dataSources' = << >>
        /\ result' = Returned(<< >>)
        /\ UNCHANGED <<show, _show, _dataSourceIndex>>

\* getDataSourceIndex(dataSources, dataSource)
getDataSourceIndex(dataSources, dataSource) ==
    IF dataSource = undefined
    THEN Threw("dataSource is required.")
    ELSE IF indexOf(dataSources, dataSource) = -1
    THEN Threw("dataSource is not in this collection.")
    ELSE Returned(<<indexOf(dataSources, dataSource)>>)

\* Mutant of swapDataSources: dataSourceMoved passes the old index first.
swapDataSources_oldNew(i0, j0) ==
    LET arr == _dataSources
        i == clamp(i0, 0, Len(arr) - 1)
        j == clamp(j0, 0, Len(arr) - 1)
    IN  IF i = j
        THEN Quiet(<< >>)
        ELSE LET temp == At(arr, i)
                 swapped == [k \in 1..Len(arr) |->
                                IF k = i + 1 THEN At(arr, j)
                                ELSE IF k = j + 1 THEN temp ELSE arr[k]]
                 u == _update(swapped)
             IN  /\ _dataSources' = swapped
                 /\ _dataSourceIndex' = u.positions
                 /\ _show' = u.lastShow
                 /\ events' = Append(u.raised,
                        Entry("dataSourceMoved", temp, i, j, FALSE,
                              swapped, u.positions, u.lastShow, {}))
                 /\ result' = Returned(<< >>)
                 /\ UNCHANGED show

\* swapDataSources(collection, i, j)
swapDataSources(i0, j0) ==
    LET arr == _dataSources
        i == clamp(i0, 0, Len(arr) - 1)
        j == clamp(j0, 0, Len(arr) - 1)
    IN  IF i = j
        THEN Quiet(<< >>)
        ELSE LET temp == At(arr, i)
                 swapped == [k \in 1..Len(arr) |->
                                IF k = i + 1 THEN At(arr, j)
                                ELSE IF k = j + 1 THEN temp ELSE arr[k]]
                 u == _update(swapped)
             IN  /\ _dataSources' = swapped
                 /\ _dataSourceIndex' = u.positions
                 /\ _show' = u.lastShow
                 /\ events' = Append(u.raised,
                        Entry("dataSourceMoved", temp, j, i, FALSE,
                              swapped, u.positions, u.lastShow, {}))
                 /\ result' = Returned(<< >>)
                 /\ UNCHANGED show

\* Mutant of raise: a data source that is not in the collection is ignored.
raise_silent(dataSource) ==
    LET index == getDataSourceIndex(_dataSources, dataSource)
    IN  /\ call' = Call("raise", dataSource, << >>, << >>)
        /\ IF index.threw
           THEN Quiet(<< >>)
           ELSE swapDataSources(index.value[1], index.value[1] + 1)

\* DataSourceCollection.prototype.raise
raise(dataSource) ==
    LET index == getDataSourceIndex(_dataSources, dataSource)
    IN  /\ call' = Call("raise", dataSource, << >>, << >>)
        /\ IF index.threw
           THEN Fail(index.message)
           ELSE swapDataSources(index.value[1], index.value[1] + 1)

\* DataSourceCollection.prototype.lower
lower(dataSource) ==
    LET index == getDataSourceIndex(_dataSources, dataSource)
    IN  /\ call' = Call("lower", dataSource, << >>, << >>)
        /\ IF index.threw
           THEN Fail(index.message)
           ELSE swapDataSources(index.value[1], index.value[1] - 1)

\* The tail shared by raiseToTop and lowerToBottom once the array arr has
\* been rearranged: _update, then dataSourceMoved(dataSource, newIndex, index).
moved(arr, dataSource, newIndex, index) ==
    LET u == _update(arr)
    IN  /\ _dataSources' = arr
        /\ _dataSourceIndex' = u.positions
        /\ _show' = u.lastShow
        /\ events' = Append(u.raised,
               Entry("dataSourceMoved", dataSource, newIndex, index, FALSE,
                     arr, u.positions, u.lastShow, {}))
        /\ result' = Returned(<< >>)
        /\ UNCHANGED show

\* Mutant of raiseToTop: no early return for a data source already on top.
raiseToTop_alwaysMoves(dataSource) ==
    LET index == getDataSourceIndex(_dataSources, dataSource)
    IN  /\ call' = Call("raiseToTop", dataSource, << >>, << >>)
        /\ IF index.threw
           THEN Fail(index.message)
           ELSE LET arr == Append(spliceOut(_dataSources, index.value[1]), dataSource)
                IN  moved(arr, dataSource, Len(arr) - 1, index.value[1])

\* DataSourceCollection.prototype.raiseToTop
raiseToTop(dataSource) ==
    LET index == getDataSourceIndex(_dataSources, dataSource)
    IN  /\ call' = Call("raiseToTop", dataSource, << >>, << >>)
        /\ IF index.threw
           THEN Fail(index.message)
           ELSE IF index.value[1] = Len(_dataSources) - 1
           THEN Quiet(<< >>)
           ELSE LET arr == Append(spliceOut(_dataSources, index.value[1]), dataSource)
                IN  moved(arr, dataSource, Len(arr) - 1, index.value[1])

\* Mutant of lowerToBottom: the data source is written over the one at
\* index 0 and stays where it was.
lowerToBottom_overwrites(dataSource) ==
    LET index == getDataSourceIndex(_dataSources, dataSource)
    IN  /\ call' = Call("lowerToBottom", dataSource, << >>, << >>)
        /\ IF index.threw
           THEN Fail(index.message)
           ELSE IF index.value[1] = 0
           THEN Quiet(<< >>)
           ELSE LET arr == [_dataSources EXCEPT ![1] = dataSource]
                IN  moved(arr, dataSource, 0, index.value[1])

\* DataSourceCollection.prototype.lowerToBottom
lowerToBottom(dataSource) ==
    LET index == getDataSourceIndex(_dataSources, dataSource)
    IN  /\ call' = Call("lowerToBottom", dataSource, << >>, << >>)
        /\ IF index.threw
           THEN Fail(index.message)
           ELSE IF index.value[1] = 0
           THEN Quiet(<< >>)
           ELSE LET arr == spliceIn(spliceOut(_dataSources, index.value[1]), 0, dataSource)
                IN  moved(arr, dataSource, 0, index.value[1])

\* Mutant of contains: the answer is read from the data source's
\* _dataSourceIndex.
contains_byStoredIndex(dataSource) ==
    /\ call' = Call("contains", dataSource, << >>, << >>)
    /\ Quiet(<<_dataSourceIndex[dataSource] # << >>>>)

\* DataSourceCollection.prototype.contains
contains(dataSource) ==
    /\ call' = Call("contains", dataSource, << >>, << >>)
    /\ Quiet(<<indexOf(_dataSources, dataSource) # -1>>)

\* DataSourceCollection.prototype.indexOf
collectionIndexOf(dataSource) ==
    /\ call' = Call("indexOf", dataSource, << >>, << >>)
    /\ Quiet(<<indexOf(_dataSources, dataSource)>>)

\* Mutant of get: an index outside the array is rejected.
get_rangeChecked(index) ==
    /\ call' = Call("get", undefined, index, << >>)
    /\ IF index = << >>
       THEN Fail("index is required.")
       ELSE IF index[1] \in 0..(Len(_dataSources) - 1)
       THEN Quiet(<<At(_dataSources, index[1])>>)
       ELSE Fail("index is required.")

\* DataSourceCollection.prototype.get: this._dataSources[index] is undefined
\* for an index outside the array.
get(index) ==
    /\ call' = Call("get", undefined, index, << >>)
    /\ IF index = << >>
       THEN Fail("index is required.")
       ELSE IF index[1] \in 0..(Len(_dataSources) - 1)
       THEN Quiet(<<At(_dataSources, index[1])>>)
       ELSE Quiet(<< >>)

\* DataSourceCollection.prototype.getLength
getLength ==
    /\ call' = Call("getLength", undefined, << >>, << >>)
    /\ Quiet(<<Len(_dataSources)>>)

\* DataSourceCollection.prototype.isDestroyed
isDestroyedCall ==
    /\ call' = Call("isDestroyed", undefined, << >>, << >>)
    /\ Quiet(<<isDestroyed>>)

\* destroyObject(this): from now on isDestroyed() answers true and every
\* other function of the object throws.
destroyObject == isDestroyed' = TRUE

\* The functions destroyObject leaves on the collection, isDestroyed apart.
Functions ==
    {"add", "remove", "removeAll", "contains", "indexOf", "get", "getLength",
     "raise", "lower", "raiseToTop", "lowerToBottom", "destroy"}

\* A call of one of them on the destroyed collection.
destroyedCall(op) ==
    /\ call' = Call(op, undefined, << >>, << >>)
    /\ Fail("This object was destroyed, i.e., destroy() was called.")

\* DataSourceCollection.prototype.remove for a data source whose destroy()
\* throws or is not a function (a CzmlDataSource has none): line 113 throws
\* after lines 106-110 have run.
removeDestroyThrows(dataSource, destroy) ==
    LET index == indexOf(_dataSources, dataSource)
        arr   == spliceOut(_dataSources, index)
        u     == _update(arr)
    IN  /\ index # -1
        /\ defaultValue(destroy, TRUE)
        /\ call' = Call("remove", dataSource, << >>, destroy)
        /\ _dataSources' = arr
        /\ _dataSourceIndex' = u.positions
        /\ _show' = u.lastShow
        /\ events' = u.raised \o
               <<Entry("dataSourceRemoved", dataSource, index, -1, FALSE,
                       arr, u.positions, u.lastShow, {}),
                 Entry("destroy", dataSource, -1, -1, FALSE,
                       arr, u.positions, u.lastShow, {})>>
        /\ result' = Threw("dataSource.destroy threw")
        /\ UNCHANGED show

\* The loop of removeAll when the subscriber of dataSourceRemoved calls
\* remove(x, false) from its handler for the notification of index at.  The
\* notification is dispatched synchronously, so the nested remove splices the
\* array the loop is walking; len was read before the loop; dataSources[i]
\* is undefined past the end of the array, and undefined.destroy() throws.
\* arr, idx and sh are the array and the shadow fields so far, dead the data
\* sources destroyed so far.  The log entry "subscriberRemove" marks the
\* nested call.
RECURSIVE removeAllNestedLoop(_, _, _, _, _, _, _, _, _)
removeAllNestedLoop(arr, i, len, doDestroy, at, x, idx, sh, dead) ==
    IF i >= len
    THEN [dataSources |-> << >>, positions |-> idx, lastShow |-> sh,
          log |-> << >>, threw |-> FALSE]
    ELSE LET dataSource == IF i < Len(arr) THEN At(arr, i) ELSE undefined
             removed == Entry("dataSourceRemoved", dataSource, i, -1, FALSE,
                              arr, idx, sh, dead)
             index == indexOf(arr, x)
             nests == i = at /\ index # -1
             arr2  == IF nests THEN spliceOut(arr, index) ELSE arr
             u     == _update(arr2)
             idx2  == IF nests THEN u.positions ELSE idx
             sh2   == IF nests THEN u.lastShow ELSE sh
             nested ==
                 IF i # at THEN << >>
                 ELSE <<Entry("subscriberRemove", x, -1, -1, FALSE, arr, idx, sh, dead)>>
                      \o (IF nests
                          THEN [k \in 1..Len(u.raised) |->
                                   [u.raised[k] EXCEPT !.destroyed = dead]]
                               \o <<Entry("dataSourceRemoved", x, index, -1, FALSE,
                                          arr2, idx2, sh2, dead)>>
                          ELSE << >>)
             destroying == Entry("destroy", dataSource, -1, -1, FALSE,
                                 arr2, idx2, sh2, dead)
         IN  IF doDestroy /\ dataSource = undefined
             THEN [dataSources |-> arr2, positions |-> idx2, lastShow |-> sh2,
                   log |-> <<removed>> \o nested, threw |-> TRUE]
             ELSE LET rest == removeAllNestedLoop(arr2, i + 1, len, doDestroy, at, x,
                                  idx2, sh2,
                                  IF doDestroy THEN dead \cup {dataSource} ELSE dead)
                  IN  [rest EXCEPT !.log =
                          <<removed>> \o nested
                              \o (IF doDestroy THEN <<destroying>> ELSE << >>)
                              \o rest.log]

\* DataSourceCollection.prototype.removeAll with that subscriber.
removeAllNested(destroy, at, x) ==
    LET doDestroy == defaultValue(destroy, TRUE)
        r == removeAllNestedLoop(_dataSources, 0, Len(_dataSources), doDestroy, at, x,
                                 _dataSourceIndex, _show, {})
    IN  /\ at \in 0..(Len(_dataSources) - 1)
        /\ call' = Call("removeAll", undefined, << >>, destroy)
        /\ events' = r.log
        /\ _dataSources' = r.dataSources
        /\ _dataSourceIndex' = r.positions
        /\ _show' = r.lastShow
        /\ result' = IF r.threw THEN Threw("TypeError: dataSource is undefined")
                     ELSE Returned(<< >>)
        /\ UNCHANGED show

\* Mutant of destroy: the data sources are not removed first.
destroy_keepsSources ==
    /\ call' = Call("destroy", undefined, << >>, << >>)
    /\ events' = << >>
    /\ destroyObject
    /\ result' = Returned(<< >>)
    /\ UNCHANGED <<_dataSources, show, _show, _dataSourceIndex>>

\* DataSourceCollection.prototype.destroy
destroy ==
    /\ call' = Call("destroy", undefined, << >>, << >>)
    /\ events' = removeAllLoop(_dataSources, 0, TRUE, {})
    /\ _dataSources' = << >>
    /\ destroyObject
    /\ result' = Returned(<< >>)
    /\ UNCHANGED <<show, _show, _dataSourceIndex>>

----------------------------------------------------------------------------
\* The arguments callers pass.
HandleArgs  == Handles \cup {undefined}
IndexArgs   == {<< >>} \cup {<<i>> : i \in -1..(MaxLen + 1)}
DestroyArgs == {<< >>, <<TRUE>>, <<FALSE>>}

\* The methods that change the array, and those of them that only reorder it.
Mutating == {"add", "remove", "removeAll", "raise", "lower", "raiseToTop", "lowerToBottom"}
Reorders == {"raise", "lower", "raiseToTop", "lowerToBottom"}

\* An add that will insert is explored only while the array is below MaxLen.
Insertable(index) ==
    index = << >> \/ (index[1] >= 0 /\ index[1] <= Len(_dataSources))

\* The caller makes a call: the last one has been looked at, and the
\* collection has not been destroyed.
Ready == call = Idle /\ ~isDestroyed /\ UNCHANGED isDestroyed /\ before' = _dataSources

Next ==
    \/ Reset /\ UNCHANGED isDestroyed
    \/ \E h \in Handles : Ready /\ SetShow(h)
    \/ \E h \in HandleArgs, index \in IndexArgs :
           /\ Ready
           /\ (h # undefined /\ Insertable(index)) => Len(_dataSources) < MaxLen
           /\ add(h, index)
    \/ \E h \in HandleArgs, d \in DestroyArgs : Ready /\ remove(h, d)
    \/ \E d \in DestroyArgs : Ready /\ removeAll(d)
    \/ \E h \in HandleArgs : Ready /\ raise(h)
    \/ \E h \in HandleArgs : Ready /\ lower(h)
    \/ \E h \in HandleArgs : Ready /\ raiseToTop(h)
    \/ \E h \in HandleArgs : Ready /\ lowerToBottom(h)
    \/ \E h \in Handles : Ready /\ contains(h)
    \/ \E h \in Handles : Ready /\ collectionIndexOf(h)
    \/ \E index \in IndexArgs : Ready /\ get(index)
    \/ Ready /\ getLength
    \/ Ready /\ isDestroyedCall

Spec == Init /\ [][Next]_vars

\* The collection with its destroy(): what Next does, and the calls on the
\* destroyed collection.
NextDestroy ==
    \/ Next
    \/ call = Idle /\ ~isDestroyed /\ before' = _dataSources /\ destroy
    \/ \E op \in Functions :
           /\ call = Idle /\ isDestroyed /\ UNCHANGED <<isDestroyed, before>>
           /\ destroyedCall(op)
    \/ /\ call = Idle /\ isDestroyed /\ UNCHANGED <<isDestroyed, before>>
       /\ isDestroyedCall

SpecDestroy == Init /\ [][NextDestroy]_vars

\* The collection holding data sources whose destroy() may throw.
NextFaulty ==
    \/ Next
    \/ \E h \in Handles, d \in DestroyArgs : Ready /\ removeDestroyThrows(h, d)

SpecFaulty == Init /\ [][NextFaulty]_vars

\* The collection with a subscriber that calls remove from its handler.
NextNested ==
    \/ Next
    \/ \E d \in DestroyArgs, at \in 0..(MaxLen - 1), x \in Handles :
           Ready /\ removeAllNested(d, at, x)

SpecNested == Init /\ [][NextNested]_vars

\* A caller makes a reordering call right after another reordering call has
\* returned.
Follows ==
    /\ call.op \in Reorders
    /\ ~result.threw
    /\ ~isDestroyed
    /\ UNCHANGED isDestroyed
    /\ before' = _dataSources

\* The collection with callers that reorder it in consecutive calls.
NextConsecutive ==
    \/ Next
    \/ \E h \in Handles : Follows /\ raise(h)
    \/ \E h \in Handles : Follows /\ lower(h)
    \/ \E h \in Handles : Follows /\ raiseToTop(h)
    \/ \E h \in Handles : Follows /\ lowerToBottom(h)

SpecConsecutive == Init /\ [][NextConsecutive]_vars

----------------------------------------------------------------------------
(* Vocabulary of the properties *)

Members(arr) == {arr[k] : k \in 1..Len(arr)}

\* Every element of arr has its index in arr as its stored position.
PositionsMatch(arr, idx) == \A i \in 0..(Len(arr) - 1) : idx[At(arr, i)] = <<i>>

\* The places of the log that hold an entry of the given type.
Raised(log, type) == {k \in 1..Len(log) : log[k].type = type}

\* arr with the elements at indices i and j exchanged.
Exchanged(arr, i, j) ==
    [k \in 1..Len(arr) |->
        IF k = i + 1 THEN At(arr, j) ELSE IF k = j + 1 THEN At(arr, i) ELSE arr[k]]

\* arr without the data source x.
Others(arr, x) == LET keep(y) == y # x IN SelectSeq(arr, keep)

\* The collection and the fields the collection keeps on the data sources.
registry == <<_dataSources, show, _show, _dataSourceIndex>>

----------------------------------------------------------------------------
(* C1: after any successful mutating call, for every i in [0, length) the  *)
(* data source at index i has stored position (_dataSourceIndex) i.        *)
C1_IndexConsistency ==
    (call.op \in Mutating /\ ~result.threw)
        => PositionsMatch(_dataSources, _dataSourceIndex)

(* C2: in every reachable state the array holds no data source more than   *)
(* once, add of a data source that is already a member included.           *)
C2_NoDuplicates ==
    \A i, j \in 1..Len(_dataSources) : _dataSources[i] = _dataSources[j] => i = j

(* C3: a successful remove(dataSource, destroy = true) takes the data      *)
(* source out, runs the re-index pass, raises dataSourceRemoved, then      *)
(* invokes destroy(): one dataSourceRemoved entry, after every entry of    *)
(* the pass and before the one destroy entry, and when it is raised the    *)
(* data source is no longer in the array and every remaining data source's *)
(* position equals its index.                                              *)
C3_RemoveOrder ==
    (call.op = "remove" /\ result = Returned(<<TRUE>>) /\ call.destroy # <<FALSE>>)
        => \E r, d \in 1..Len(events) :
               /\ Raised(events, "dataSourceRemoved") = {r}
               /\ Raised(events, "destroy") = {d}
               /\ r < d
               /\ \A k \in Raised(events, "dataSourceShownOrHidden") : k < r
               /\ events[r].dataSource = call.dataSource
               /\ events[d].dataSource = call.dataSource
               /\ call.dataSource \notin Members(events[r].dataSources)
               /\ PositionsMatch(events[r].dataSources, events[r].positions)

(* C4: add(dataSource, index) with 0 <= index <= length puts the data      *)
(* source at exactly that index, moves the data sources at indices >=      *)
(* index up by one, keeps all others in place and makes the array one      *)
(* longer; without an index the data source goes to index = old length.    *)
C4_AddInsertsAtIndex ==
    [][ (call'.op = "add" /\ ~result'.threw) =>
            LET old == _dataSources
                new == _dataSources'
                ix  == IF call'.index = << >> THEN Len(old) ELSE call'.index[1]
            IN  /\ Len(new) = Len(old) + 1
                /\ At(new, ix) = call'.dataSource
                /\ \A k \in 0..(ix - 1) : At(new, k) = At(old, k)
                /\ \A k \in ix..(Len(old) - 1) : At(new, k + 1) = At(old, k)
      ]_vars

C4_Witness ==
    /\ call.op = "add"
    /\ call.index = <<1>>
    /\ ~result.threw
    /\ Len(_dataSources) = 3
    /\ C2_NoDuplicates

(* C5: remove(dataSource) of a member returns true, takes out exactly one  *)
(* occurrence, the first, keeps the order of the rest, and raises exactly  *)
(* one dataSourceRemoved carrying the data source and the index it had     *)
(* before the call.                                                        *)
C5_RemoveMember ==
    [][ (call'.op = "remove" /\ call'.dataSource \in Members(_dataSources)) =>
            LET old == _dataSources
                new == _dataSources'
            IN  \E i \in 0..(Len(old) - 1) :
                    /\ At(old, i) = call'.dataSource
                    /\ \A k \in 0..(i - 1) : At(old, k) # call'.dataSource
                    /\ result' = Returned(<<TRUE>>)
                    /\ Len(new) = Len(old) - 1
                    /\ \A k \in 0..(i - 1) : At(new, k) = At(old, k)
                    /\ \A k \in (i + 1)..(Len(old) - 1) : At(new, k - 1) = At(old, k)
                    /\ \E r \in 1..Len(events') :
                           /\ Raised(events', "dataSourceRemoved") = {r}
                           /\ events'[r].dataSource = call'.dataSource
                           /\ events'[r].index = i
      ]_vars

C5_Witness ==
    /\ call.op = "remove"
    /\ result = Returned(<<TRUE>>)
    /\ Len(_dataSources) = 2
    /\ call.dataSource \in Members(_dataSources)
    /\ \E r \in Raised(events, "dataSourceRemoved") : events[r].index = 0

(* C6: remove(dataSource) of a data source that is not a member returns    *)
(* false and changes nothing: the array and every position and _show stay, *)
(* nothing is raised and destroy() is not invoked, whatever the destroy    *)
(* argument.                                                               *)
C6_RemoveAbsent ==
    [][ (call'.op = "remove" /\ call'.dataSource \notin Members(_dataSources)) =>
            /\ result' = Returned(<<FALSE>>)
            /\ events' = << >>
            /\ UNCHANGED registry
      ]_vars

C6_Witness ==
    /\ call.op = "remove"
    /\ call.destroy = <<TRUE>>
    /\ call.dataSource \in Handles
    /\ result = Returned(<<FALSE>>)
    /\ Len(_dataSources) = 2
    /\ \E h \in Members(_dataSources) : _show[h] # <<show[h]>>

(* C7: raise(dataSource) on a member at index i < length-1 exchanges it    *)
(* with the data source at i+1, lower on a member at index i > 0 with the  *)
(* one at i-1, every other index unchanged; raise of the data source at    *)
(* the last index and lower of the one at index 0 leave the array          *)
(* unchanged and raise no dataSourceMoved.                                 *)
C7_RaiseLowerSwap ==
    [][ (call'.op \in {"raise", "lower"} /\ ~result'.threw) =>
            LET old  == _dataSources
                step == IF call'.op = "raise" THEN 1 ELSE -1
            IN  \A i \in 0..(Len(old) - 1) :
                    At(old, i) = call'.dataSource =>
                        IF i + step \in 0..(Len(old) - 1)
                        THEN _dataSources' = Exchanged(old, i, i + step)
                        ELSE /\ _dataSources' = old
                             /\ Raised(events', "dataSourceMoved") = {}
      ]_vars

(* C8: raiseToTop(dataSource) moves a member to the last index and         *)
(* lowerToBottom to index 0, the other data sources keeping their order;   *)
(* when the data source is already at that end the call changes nothing    *)
(* and raises nothing, so the operation done twice gives what it gives     *)
(* done once.                                                              *)
C8_ToTopToBottom ==
    [][ (call'.op \in {"raiseToTop", "lowerToBottom"} /\ ~result'.threw) =>
            LET old == _dataSources
                new == _dataSources'
                h   == call'.dataSource
                end == IF call'.op = "raiseToTop" THEN Len(old) - 1 ELSE 0
            IN  IF At(old, end) = h
                THEN events' = << >> /\ UNCHANGED registry
                ELSE /\ Len(new) = Len(old)
                     /\ At(new, end) = h
                     /\ Others(new, h) = Others(old, h)
      ]_vars

(* C9: every raise, lower, raiseToTop or lowerToBottom that changes the    *)
(* order raises exactly one dataSourceMoved, carrying the data source      *)
(* passed to the call, its new index and its old index, the new index      *)
(* being where the data source is in the array when the event is raised;   *)
(* none is raised for the other data sources whose index changed.          *)
C9_MovedNotification ==
    [][ (call'.op \in Reorders /\ ~result'.threw /\ _dataSources' # _dataSources) =>
            \E m \in 1..Len(events') :
                /\ Raised(events', "dataSourceMoved") = {m}
                /\ events'[m].dataSource = call'.dataSource
                /\ events'[m].index \in 0..(Len(events'[m].dataSources) - 1)
                /\ At(events'[m].dataSources, events'[m].index) = call'.dataSource
                /\ events'[m].oldIndex \in 0..(Len(_dataSources) - 1)
                /\ At(_dataSources, events'[m].oldIndex) = call'.dataSource
                /\ \A k \in 0..(events'[m].oldIndex - 1) :
                       At(_dataSources, k) # call'.dataSource
                /\ events'[m].index # events'[m].oldIndex
      ]_vars

C9_Witness ==
    /\ call.op = "lower"
    /\ Len(_dataSources) = 3
    /\ C2_NoDuplicates
    /\ \E m \in Raised(events, "dataSourceMoved") :
           events[m].index = 1 /\ events[m].oldIndex = 2

(* C10: raise, lower, raiseToTop and lowerToBottom called with a data      *)
(* source that is not a member throw "dataSource is not in this            *)
(* collection." instead of doing nothing; the array and the shadow fields  *)
(* are unchanged and nothing is raised.                                    *)
C10_NotAMember ==
    [][ (call'.op \in Reorders /\ call'.dataSource \in Handles
            /\ call'.dataSource \notin Members(_dataSources)) =>
            /\ result' = Threw("dataSource is not in this collection.")
            /\ events' = << >>
            /\ UNCHANGED registry
      ]_vars

C10_Witness ==
    /\ call.op = "lowerToBottom"
    /\ result = Threw("dataSource is not in this collection.")
    /\ Len(_dataSources) = 2
    /\ \E h \in Members(_dataSources) : _show[h] # <<show[h]>>

(* C11: add throws when index is given and index < 0 or index > length     *)
(* (the spec's RangeError) and when the data source is absent (the spec's  *)
(* InvalidArgument); the index is never clamped, and on either failure the *)
(* array is unchanged, no re-index pass runs and nothing is raised.        *)
(* index = length is accepted.                                             *)
C11_AddValidates ==
    [][ call'.op = "add" =>
            LET given == call'.index # << >>
                below == given /\ call'.index[1] < 0
                above == given /\ call'.index[1] > Len(_dataSources)
            IN  /\ call'.dataSource = undefined =>
                       result' = Threw("dataSource is required.")
                /\ (call'.dataSource # undefined /\ below) =>
                       result' = Threw("index must be greater than or equal to zero.")
                /\ (call'.dataSource # undefined /\ above) =>
                       result' = Threw("index must be less than or equal to the number of data sources.")
                /\ (call'.dataSource # undefined /\ ~below /\ ~above) => ~result'.threw
                /\ result'.threw => events' = << >> /\ UNCHANGED registry
      ]_vars

C11_Witness ==
    /\ call.op = "add"
    /\ call.dataSource \in Handles
    /\ call.index = <<3>>
    /\ Len(_dataSources) = 2
    /\ result.threw
    /\ \E h \in Members(_dataSources) : _show[h] # <<show[h]>>

(* C12: whenever an add or remove call ends with an error, whatever raised *)
(* it (argument validation, the re-index pass, a subscriber, or the data   *)
(* source's destroy() throwing or missing), the array after the call is    *)
(* the array before the call.                                              *)
C12_FailedCallKeepsSequence ==
    [][ (call'.op \in {"add", "remove"} /\ result'.threw)
            => _dataSources' = _dataSources
      ]_vars

(* C13: removeAll(destroy) raises exactly one dataSourceRemoved per entry   *)
(* of the array, in array order, each carrying the data source and its     *)
(* index at that moment; with destroy true each data source's destroy() is *)
(* invoked right after its own notification; the array is emptied only     *)
(* after all of them; no re-index pass runs, so no dataSourceShownOrHidden *)
(* is raised and no shadow field changes.                                  *)
C13_RemoveAll ==
    [][ call'.op = "removeAll" =>
            LET old == _dataSources
                doDestroy == call'.destroy # <<FALSE>>
                per == IF doDestroy THEN 2 ELSE 1
            IN  /\ ~result'.threw
                /\ _dataSources' = << >>
                /\ Len(events') = Len(old) * per
                /\ \A i \in 0..(Len(old) - 1) :
                       LET e == events'[i * per + 1]
                       IN  /\ e.type = "dataSourceRemoved"
                           /\ e.dataSource = At(old, i)
                           /\ e.index = i
                           /\ e.dataSources = old
                           /\ doDestroy =>
                                  /\ events'[i * per + 2].type = "destroy"
                                  /\ events'[i * per + 2].dataSource = At(old, i)
                /\ UNCHANGED <<show, _show, _dataSourceIndex>>
      ]_vars

C13_Witness ==
    /\ call.op = "removeAll"
    /\ call.destroy = << >>
    /\ Len(events) = 6
    /\ {events[k].dataSource : k \in 1..Len(events)} = Handles
    /\ \E h \in Handles : _show[h] # << >> /\ _show[h] # <<show[h]>>

(* C14: destroy() does what removeAll(true) does (one dataSourceRemoved and *)
(* one destroy() per entry, array emptied) and then marks the collection   *)
(* destroyed; from then on every call other than isDestroyed() (add,       *)
(* remove, removeAll, get, raise, ..., destroy itself) throws "This object *)
(* was destroyed", and isDestroyed() answers true after destroy() and      *)
(* false before it.                                                        *)
C14_Destroy ==
    [][ /\ (call'.op = "destroy" /\ ~isDestroyed) =>
               /\ ~result'.threw
               /\ isDestroyed'
               /\ _dataSources' = << >>
               /\ Len(events') = 2 * Len(_dataSources)
               /\ \A i \in 0..(Len(_dataSources) - 1) :
                      /\ events'[2 * i + 1].type = "dataSourceRemoved"
                      /\ events'[2 * i + 1].dataSource = At(_dataSources, i)
                      /\ events'[2 * i + 1].index = i
                      /\ events'[2 * i + 2].type = "destroy"
                      /\ events'[2 * i + 2].dataSource = At(_dataSources, i)
        /\ (isDestroyed /\ call'.op \notin {"idle", "isDestroyed"}) =>
               /\ result' = Threw("This object was destroyed, i.e., destroy() was called.")
               /\ events' = << >>
               /\ UNCHANGED registry
        /\ call'.op = "isDestroyed" => result' = Returned(<<isDestroyed>>)
        /\ isDestroyed => isDestroyed'
        /\ (~isDestroyed /\ call'.op # "destroy") => ~isDestroyed'
      ]_vars

C14_Witness ==
    /\ call.op = "destroy"
    /\ isDestroyed
    /\ Len(events) = 6
    /\ {events[k].dataSource : k \in 1..Len(events)} = Handles

(* C15: for every add(dataSource), whatever the data source's show and     *)
(* whatever happened to it before (an earlier membership ended by          *)
(* remove(dataSource, false) and a change of show included), the pass run  *)
(* by that add raises no dataSourceShownOrHidden for the data source being *)
(* added.  Stated for the adds of a data source that is not in the array   *)
(* when add is called.                                                     *)
C15_NoTransitionOnAdd ==
    [][ (call'.op = "add" /\ ~result'.threw
            /\ call'.dataSource \notin Members(_dataSources)) =>
            \A k \in Raised(events', "dataSourceShownOrHidden") :
                events'[k].dataSource # call'.dataSource
      ]_vars

\* A call whose _update ran: it raised dataSourceAdded, dataSourceRemoved (by
\* remove) or dataSourceMoved.
PassRan(op, log) ==
    /\ op # "removeAll"
    /\ \E k \in 1..Len(log) :
           log[k].type \in {"dataSourceAdded", "dataSourceRemoved", "dataSourceMoved"}

\* The members of arr whose show differs from a defined _show.
Transitioned(arr) ==
    {h \in Members(arr) : _show[h] # << >> /\ _show[h] # <<show[h]>>}

(* C16: when _update runs, every member of the array whose show differs    *)
(* from its defined _show gets exactly one dataSourceShownOrHidden,        *)
(* carrying the data source, its _dataSourceIndex after the pass (an index *)
(* at which it sits) and its current show; the notifications come in the   *)
(* order in which the walk first meets the data sources; members whose     *)
(* show equals _show, or whose _show is undefined, get none.               *)
C16_ShownOrHidden ==
    [][ PassRan(call'.op, events') =>
            LET S == Raised(events', "dataSourceShownOrHidden")
            IN  /\ {events'[k].dataSource : k \in S} = Transitioned(_dataSources')
                /\ \A k, l \in S : k < l =>
                       /\ events'[k].dataSource # events'[l].dataSource
                       /\ indexOf(_dataSources', events'[k].dataSource)
                              < indexOf(_dataSources', events'[l].dataSource)
                /\ \A k \in S :
                       /\ _dataSourceIndex'[events'[k].dataSource] = <<events'[k].index>>
                       /\ events'[k].index \in 0..(Len(_dataSources') - 1)
                       /\ At(_dataSources', events'[k].index) = events'[k].dataSource
                       /\ events'[k].shown = show'[events'[k].dataSource]
      ]_vars

\* An add into [x, y] after x.show and y.show changed: two notifications, and
\* none for the data source added.
C16_Witness ==
    /\ call.op = "add"
    /\ Len(_dataSources) = 3
    /\ Len(events) = 3
    /\ events[1].type = "dataSourceShownOrHidden"
    /\ events[2].type = "dataSourceShownOrHidden"
    /\ events[1].index < events[2].index
    /\ events[3].dataSource \notin {events[1].dataSource, events[2].dataSource}

(* C17: every add that returns raises exactly one dataSourceAdded, after   *)
(* _update has finished (it is the last notification of the call and the   *)
(* shadow fields it sees are the final ones), carrying the data source and *)
(* an index such that, at that moment, the array holds the data source at  *)
(* the index and the data source's _dataSourceIndex is the index.          *)
C17_AddedNotification ==
    (call.op = "add" /\ ~result.threw) =>
        LET S == Raised(events, "dataSourceAdded")
        IN  /\ Cardinality(S) = 1
            /\ \A k \in S :
                   /\ k = Len(events)
                   /\ events[k].dataSource = call.dataSource
                   /\ events[k].dataSources = _dataSources
                   /\ events[k].positions = _dataSourceIndex
                   /\ events[k].lastShow = _show
                   /\ events[k].index \in 0..(Len(_dataSources) - 1)
                   /\ At(_dataSources, events[k].index) = call.dataSource
                   /\ _dataSourceIndex[call.dataSource] = <<events[k].index>>

\* The index of the insertion made by add(dataSource, index) on the array arr.
InsertionIndex(arr, index) == IF index = << >> THEN Len(arr) ELSE index[1]

(* C18, as stated: an add that returns, returns the index at which the     *)
(* data source was inserted: the index given when one is supplied,         *)
(* otherwise the previous length.                                          *)
C18_AddReturnsIndex ==
    [][ (call'.op = "add" /\ ~result'.threw) =>
            result'.value = <<InsertionIndex(_dataSources, call'.index)>>
      ]_vars

(* C18, amended: an add that returns, returns no value (undefined); the    *)
(* index of the insertion (the index given when one is supplied, otherwise *)
(* the previous length) is delivered only as the second argument of the    *)
(* dataSourceAdded notification.                                           *)
C18_AddReturnsNothing ==
    [][ (call'.op = "add" /\ ~result'.threw) =>
            /\ result' = Returned(<< >>)
            /\ \A k \in Raised(events', "dataSourceAdded") :
                   events'[k].index = InsertionIndex(_dataSources, call'.index)
            /\ Raised(events', "dataSourceAdded") # {}
      ]_vars

\* add(x, 0) on an array of two has returned.
C18_Witness ==
    /\ call.op = "add"
    /\ call.index = <<0>>
    /\ Len(_dataSources) = 3
    /\ result = Returned(<< >>)
    /\ events[Len(events)].type = "dataSourceAdded"
    /\ events[Len(events)].index = 0

(* C19: get(index) throws only when index is omitted; for an index given   *)
(* outside 0 .. length - 1 it throws nothing and returns no value          *)
(* (undefined); for an index inside the range it returns the data source   *)
(* at that index; get raises nothing and changes neither the array nor any *)
(* data source's fields.                                                   *)
C19_Get ==
    [][ call'.op = "get" =>
            /\ result'.threw <=> call'.index = << >>
            /\ call'.index = << >> => result' = Threw("index is required.")
            /\ (call'.index # << >> /\ call'.index[1] \notin 0..(Len(_dataSources) - 1)) =>
                   result' = Returned(<< >>)
            /\ (call'.index # << >> /\ call'.index[1] \in 0..(Len(_dataSources) - 1)) =>
                   result' = Returned(<<At(_dataSources, call'.index[1])>>)
            /\ events' = << >>
            /\ UNCHANGED registry
      ]_vars

\* get(length) on an array of two has returned no value.
C19_Witness ==
    /\ call.op = "get"
    /\ Len(_dataSources) = 2
    /\ call.index = <<2>>
    /\ result = Returned(<< >>)

(* C20: a data source's destroy() is invoked only as part of removing it:  *)
(* every invocation directly follows the dataSourceRemoved raised for that *)
(* data source by remove or removeAll; with destroy true or omitted remove *)
(* invokes it once on the data source it removed and removeAll once for    *)
(* every entry it removed; with destroy false neither invokes it; add,     *)
(* raise, lower, raiseToTop, lowerToBottom, contains, indexOf, get and     *)
(* getLength never invoke it.                                              *)
C20_DestroyOnlyOnRemoval ==
    [][ LET D == Raised(events', "destroy")
            R == Raised(events', "dataSourceRemoved")
        IN  /\ call'.op \notin {"remove", "removeAll"} => D = {}
            /\ call'.destroy = <<FALSE>> => D = {}
            /\ \A k \in D :
                   /\ k - 1 \in R
                   /\ events'[k - 1].dataSource = events'[k].dataSource
            /\ (call'.op \in {"remove", "removeAll"} /\ call'.destroy # <<FALSE>>) =>
                   \A k \in R : k + 1 \in D
            /\ call'.op = "remove" =>
                   /\ Cardinality(R) = (IF call'.dataSource \in Members(_dataSources)
                                        THEN 1 ELSE 0)
                   /\ \A k \in R : events'[k].dataSource = call'.dataSource
            /\ call'.op = "removeAll" => Cardinality(R) = Len(_dataSources)
      ]_vars

\* remove(x, false) has removed a member and destroyed nothing.
C20_Witness ==
    /\ call.op = "remove"
    /\ call.destroy = <<FALSE>>
    /\ result = Returned(<<TRUE>>)
    /\ Raised(events, "dataSourceRemoved") # {}
    /\ Raised(events, "destroy") = {}

\* Every member of arr has the shadow sh of its show equal to its show.
ShowsMatch(arr, sh) == \A h \in Members(arr) : sh[h] = <<show[h]>>

(* C21, as stated: after add, remove, raise, lower, raiseToTop or          *)
(* lowerToBottom returns, the calls that move nothing included, every      *)
(* member's _show equals its show, whatever the callers assigned to show   *)
(* between the calls.                                                      *)
C21_LastShowAfterEveryCall ==
    (call.op \in (Mutating \ {"removeAll"}) /\ ~result.threw)
        => ShowsMatch(_dataSources, _show)

(* C21, amended: after a call that ran _update returns (an add, a remove   *)
(* of a member, a raise, lower, raiseToTop or lowerToBottom that moved the *)
(* data source), every member's _show equals its show, whatever the        *)
(* callers assigned to show between the calls; a call that returns without *)
(* running _update (a reorder of a data source already in place, a remove  *)
(* of a data source that is not a member) leaves every _show as it was.    *)
C21_LastShowAfterPass ==
    [][ (call'.op \in (Mutating \ {"removeAll"}) /\ ~result'.threw) =>
            IF PassRan(call'.op, events')
            THEN ShowsMatch(_dataSources', _show')
            ELSE UNCHANGED _show
      ]_vars

\* A raise that moved a data source after show flags had changed: the pass
\* brought _show up to date.
C21_Witness ==
    /\ call.op = "raise"
    /\ PassRan(call.op, events)
    /\ Raised(events, "dataSourceShownOrHidden") # {}
    /\ ShowsMatch(_dataSources, _show)

\* The number of dataSourceMoved notifications in the log.
Moves(log) == Cardinality(Raised(log, "dataSourceMoved"))

(* C22: notifications are raised within the call that causes them, never   *)
(* held back or merged: when raise(h) of a member h that is not at the     *)
(* last index is followed by lower(h), the array after the second call is  *)
(* the array before the first, and each of the two calls raises exactly    *)
(* one dataSourceMoved before it returns.                                  *)
C22_RaiseThenLower ==
    [][ ( /\ call.op = "raise" /\ ~result.threw
          /\ At(before, Len(before) - 1) # call.dataSource
          /\ call'.op = "lower" /\ call'.dataSource = call.dataSource ) =>
            /\ _dataSources' = before
            /\ Moves(events) = 1
            /\ Moves(events') = 1
      ]_vars

\* The indices of arr that hold the data source x.
Occurrences(arr, x) == {i \in 0..(Len(arr) - 1) : At(arr, i) = x}

(* C23: an add of a data source that is already in the array either throws *)
(* or leaves the array with one more entry holding that data source, next  *)
(* to the entries it had; indexOf(dataSource) then, as always, returns the *)
(* lowest index holding the data source, and -1 when none does;            *)
(* contains(dataSource) returns true exactly when some index holds that    *)
(* very data source, that is exactly when indexOf does not return -1.      *)
C23_DuplicatesAndLookups ==
    [][ /\ (call'.op = "add" /\ call'.dataSource \in Members(_dataSources)) =>
               \/ result'.threw /\ UNCHANGED registry
               \/ /\ ~result'.threw
                  /\ Len(_dataSources') = Len(_dataSources) + 1
                  /\ Cardinality(Occurrences(_dataSources', call'.dataSource))
                         = Cardinality(Occurrences(_dataSources, call'.dataSource)) + 1
        /\ call'.op = "indexOf" =>
               LET occ == Occurrences(_dataSources, call'.dataSource)
               IN  /\ ~result'.threw
                   /\ occ = {} => result'.value = <<-1>>
                   /\ occ # {} =>
                          /\ result'.value[1] \in occ
                          /\ \A i \in occ : result'.value[1] <= i
        /\ call'.op = "contains" =>
               /\ ~result'.threw
               /\ result'.value = <<Occurrences(_dataSources, call'.dataSource) # {}>>
      ]_vars

\* indexOf(x) on an array that holds x at indices 1 and 2 has returned 1.
C23_Witness ==
    /\ call.op = "indexOf"
    /\ Occurrences(_dataSources, call.dataSource) = {1, 2}
    /\ result = Returned(<<1>>)

(* C24: a mutating call that a subscriber makes from inside a notification *)
(* handler does not change the array while the outer operation is still    *)
(* running: everything removeAll raises or destroys, it raises or destroys *)
(* with the array as it was when removeAll was called, for a data source   *)
(* that the array holds at the index notified, never for undefined, and    *)
(* removeAll returns.                                                      *)
C24_NoNestedMutation ==
    [][ call'.op = "removeAll" =>
            /\ ~result'.threw
            /\ \A k \in 1..Len(events') :
                   /\ events'[k].dataSources = _dataSources
                   /\ events'[k].type = "dataSourceRemoved" =>
                          /\ events'[k].dataSource # undefined
                          /\ events'[k].index \in
                                 Occurrences(_dataSources, events'[k].dataSource)
      ]_vars

(* C25: dataSourceShownOrHidden is raised only after the walk of _update   *)
(* has ended: at the moment any dataSourceShownOrHidden is raised, every   *)
(* member's _dataSourceIndex is its index in the array, every member's     *)
(* _show is its show, and the index the notification carries is the index  *)
(* of its data source in the array.                                        *)
C25_ShownOrHiddenDeferred ==
    \A k \in Raised(events, "dataSourceShownOrHidden") :
        /\ PositionsMatch(events[k].dataSources, events[k].positions)
        /\ ShowsMatch(events[k].dataSources, events[k].lastShow)
        /\ events[k].index \in Occurrences(events[k].dataSources, events[k].dataSource)

\* The lowest index of arr that holds x, for an x that arr holds.
FirstIndex(arr, x) ==
    CHOOSE i \in Occurrences(arr, x) : \A j \in Occurrences(arr, x) : i <= j

\* The reorder op called for a member x of arr that is already where op
\* would put it.
InPlace(op, arr, x) ==
    /\ op \in Reorders
    /\ x \in Members(arr)
    /\ FirstIndex(arr, x) = (IF op \in {"raise", "raiseToTop"} THEN Len(arr) - 1 ELSE 0)

SameEntries(arr, brr) ==
    /\ Len(arr) = Len(brr)
    /\ \A h \in Handles :
           Cardinality(Occurrences(arr, h)) = Cardinality(Occurrences(brr, h))

(* C27: the entries of the array change only through add, remove and       *)
(* removeAll: after raise, lower, raiseToTop or lowerToBottom, as after    *)
(* any other step, the array has the same length and holds every data      *)
(* source as many times as before, and the four raise neither              *)
(* dataSourceAdded nor dataSourceRemoved; a data source enters the array,  *)
(* empty at first, only as the argument of an add.                         *)
C27_MembershipOnlyByAddRemove ==
    [][ /\ call'.op \notin {"add", "remove", "removeAll"} =>
               SameEntries(_dataSources', _dataSources)
        /\ call'.op \in Reorders =>
               /\ Raised(events', "dataSourceAdded") = {}
               /\ Raised(events', "dataSourceRemoved") = {}
        /\ Members(_dataSources') \subseteq
               Members(_dataSources)
                   \cup (IF call'.op = "add" THEN {call'.dataSource} ELSE {})
      ]_vars

\* lowerToBottom has moved the data source from index 2 to index 0.
C27_Witness ==
    /\ call.op = "lowerToBottom"
    /\ Len(before) = 3
    /\ Moves(events) = 1
    /\ _dataSources # before
    /\ _dataSources[1] = before[3]
    /\ SameEntries(_dataSources, before)

\* The number of entries of the given type in the log.
Count(log, type) == Cardinality(Raised(log, type))

(* C28: the length of the array is the number of dataSourceAdded raised so *)
(* far minus the number of dataSourceRemoved raised so far.  The array is  *)
(* empty and nothing has been raised after construction, so this is: every *)
(* step changes the length by the number of dataSourceAdded it raises      *)
(* minus the number of dataSourceRemoved it raises; an add that returns    *)
(* raises one dataSourceAdded, remove one dataSourceRemoved when an entry   *)
(* leaves and none otherwise, removeAll one per entry of the array.        *)
C28_LengthIsAddedMinusRemoved ==
    [][ /\ Len(_dataSources') - Len(_dataSources)
               = Count(events', "dataSourceAdded") - Count(events', "dataSourceRemoved")
        /\ (call'.op = "add" /\ ~result'.threw) =>
               /\ Count(events', "dataSourceAdded") = 1
               /\ Len(_dataSources') = Len(_dataSources) + 1
        /\ call'.op # "add" => Count(events', "dataSourceAdded") = 0
        /\ call'.op = "remove" =>
               Count(events', "dataSourceRemoved") = (IF result'.value = <<TRUE>> THEN 1 ELSE 0)
        /\ call'.op = "removeAll" =>
               Count(events', "dataSourceRemoved") = Len(_dataSources)
        /\ call'.op \notin {"remove", "removeAll"} =>
               Count(events', "dataSourceRemoved") = 0
      ]_vars

\* removeAll on an array of three has raised three dataSourceRemoved.
C28_Witness ==
    /\ call.op = "removeAll"
    /\ Len(before) = 3
    /\ Count(events, "dataSourceRemoved") = 3
    /\ _dataSources = << >>

\* The data sources on which the call has invoked destroy().
Destroyed(log) == {log[k].dataSource : k \in Raised(log, "destroy")}

(* C29: whenever a subscriber or the caller can look at the collection, at *)
(* every notification and at every return, the array holds no data source  *)
(* on which the collection has already invoked destroy(); the              *)
(* notifications of removeAll(true) and the remove of a data source that   *)
(* is in the array more than once are included.                            *)
C29_NoDestroyedMember ==
    /\ \A k \in 1..Len(events) :
           events[k].type # "destroy" =>
               events[k].destroyed \cap Members(events[k].dataSources) = {}
    /\ Destroyed(events) \cap Members(_dataSources) = {}

\* The places of the log that hold the notification of the change itself.
Structural(log) ==
    Raised(log, "dataSourceAdded") \cup Raised(log, "dataSourceRemoved")
        \cup Raised(log, "dataSourceMoved")

(* C30: within one add, remove, raise, lower, raiseToTop or lowerToBottom, *)
(* every dataSourceShownOrHidden of the call's _update is raised before    *)
(* the call's dataSourceAdded, dataSourceRemoved or dataSourceMoved; in    *)
(* remove they are raised when the data source removed is no longer in the *)
(* array, and none of them is for that data source.                        *)
C30_ShownOrHiddenFirst ==
    (call.op \in (Mutating \ {"removeAll"})) =>
        \A k \in Raised(events, "dataSourceShownOrHidden") :
            /\ \A l \in Structural(events) : k < l
            /\ Structural(events) # {}
            /\ call.op = "remove" =>
                   /\ call.dataSource \notin Members(events[k].dataSources)
                   /\ events[k].dataSource # call.dataSource

\* The places of the log that hold a dataSourceShownOrHidden for h.
Reports(log, h) ==
    {k \in Raised(log, "dataSourceShownOrHidden") : log[k].dataSource = h}

(* C31: a change of show is found only by comparing show with _show, the   *)
(* value the previous _update saw.  Assigning a member's show raises       *)
(* nothing and leaves _show alone, and so does every call that runs no     *)
(* _update; a call that runs _update reports a data source that was a      *)
(* member when the call was made at most once, and only if its show        *)
(* differs from _show, so not when show was changed and changed back since *)
(* the previous _update; the _update leaves _show equal to show for every  *)
(* member, so that a later _update with no further change reports nothing  *)
(* for it.                                                                 *)
C31_DetectedAtNextPass ==
    [][ /\ show' # show => (events' = << >> /\ UNCHANGED _show)
        /\ ~PassRan(call'.op, events') =>
               /\ Raised(events', "dataSourceShownOrHidden") = {}
               /\ UNCHANGED _show
        /\ PassRan(call'.op, events') =>
               /\ \A h \in Members(_dataSources) :
                      /\ Cardinality(Reports(events', h)) <= 1
                      /\ Reports(events', h) # {} => _show[h] # <<show[h]>>
                      /\ _show[h] = <<show[h]>> => Reports(events', h) = {}
               /\ \A h \in Members(_dataSources') : _show'[h] = <<show'[h]>>
      ]_vars

\* A raise on an array of three has reported the one member whose show had
\* changed since the previous _update, once, and not the other two.
C31_Witness ==
    /\ call.op = "raise"
    /\ Len(before) = 3
    /\ PassRan(call.op, events)
    /\ Count(events, "dataSourceShownOrHidden") = 1
    /\ \E h \in Members(before) : Reports(events, h) # {}
    /\ \E h \in Members(before) : Reports(events, h) = {}
    /\ ShowsMatch(_dataSources, _show)

=============================================================================
